---------------------------- MODULE Spec2Model ----------------------------
(***************************************************************************)
(* Model of the sign-language letter classifier of PythonBackend:          *)
(* the per-letter rules of Hands/<letter>/{left,right}.py and the          *)
(* websocket handler of ws_server.py that runs them on every frame.        *)
(*                                                                         *)
(* Coordinates are fixed-point: one unit is 0.01 of the normalised image   *)
(* (MediaPipe's x, y in [0,1] become 0..100, z likewise).  Distances are    *)
(* compared through their squares, so a test  d(a,b) < k * d(c,e)  of the   *)
(* source becomes  100*100 * d2(a,b) < (100k)^2 * d2(c,e)  in exact        *)
(* integer arithmetic.                                                     *)
(***************************************************************************)
EXTENDS Integers, Sequences, FiniteSets, TLC

VARIABLES
    LETTERS,          \* ws_server.py:13, the registered letters in order
    letter_modules,   \* ws_server.py:17-24, letter -> hand -> rule module
    pc,               \* position of handle_client / of the function under study
    conn,             \* the websocket: "open", "closed" or "aborted"
    message,          \* the frame being processed (ws_server.py:60)
    results,          \* hands_detector.process output: sequence of hands
    hand,             \* index in the zip loop of ws_server.py:75
    letter,           \* index in the loop over LETTERS of ws_server.py:90
    points,           \* the list last handed to a rule (ws_server.py:91)
    detected,         \* what the last rule call returned (ws_server.py:95-97)
    translation,      \* ws_server.py:71,100
    evaluated,        \* letters whose rule ran for the current hand, in order
    sent,             \* responses sent on the connection, in order
    received,         \* number of messages delivered to the handler
    log,              \* (landmarks, label, translation) of every classified hand
    mirrored_landmarks, \* the reflected list a left-hand rule builds (C/left.py:36)
    outcomes          \* per message of the connection, in order of arrival: "pending",
                      \* "skipped" (line 65), "success" (line 116) or "error" (line 120)

vars == <<LETTERS, letter_modules, pc, conn, message, results, hand, letter,
          points, detected, translation, evaluated, sent, received, log,
          mirrored_landmarks, outcomes>>

(***************************************************************************)
(* Points and geometry                                                     *)
(***************************************************************************)

\* 1.0 in fixed-point units (the 1 of `1 - lm.x`)
One == 100

Point(x, y, z) == [x |-> x, y |-> y, z |-> z]

\* Python's list[i] on the 1-based sequence l
At(l, i) == l[i + 1]

Sq(n) == n * n

Abs(n) == IF n < 0 THEN -n ELSE n

\* square of distance(a, b)
distance2(a, b) == Sq(a.x - b.x) + Sq(a.y - b.y) + Sq(a.z - b.z)

\* distance(a, b) < (num/100) * distance(c, e), both sides non-negative
DistLess(a, b, num, c, e) == 10000 * distance2(a, b) < Sq(num) * distance2(c, e)

\* distance(a, b) > (num/100) * distance(c, e)
DistGreater(a, b, num, c, e) == 10000 * distance2(a, b) > Sq(num) * distance2(c, e)

\* |sqrt(a2) - sqrt(b2)| > c for squared lengths a2, b2 and c >= 0
SqrtDiffGreater(a2, b2, c) ==
    /\ a2 + b2 - Sq(c) > 0
    /\ Sq(a2 + b2 - Sq(c)) > 4 * a2 * b2

\* z component of np.cross(w->p, w->q)
CrossZ(w, p, q) == (p.x - w.x) * (q.y - w.y) - (p.y - w.y) * (q.x - w.x)

\* the reflection used by the left-hand rules: Point(1 - lm.x, lm.y, lm.z)
MirrorPoint(lm) == Point(One - lm.x, lm.y, lm.z)

Mirror(l) == [i \in 1..Len(l) |-> MirrorPoint(l[i])]

(***************************************************************************)
(* Python values: a list argument (or None), and the outcome of a call     *)
(***************************************************************************)

PyList(items) == [none |-> FALSE, items |-> items]

PyNone == [none |-> TRUE, items |-> <<>>]

\* a call returns a value or raises; values are written as Python prints them
Returned(v) == [exc |-> "", ret |-> v]

Raised(e) == [exc |-> e, ret |-> ""]

PyBool(b) == IF b THEN "True" ELSE "False"

\* truth value of a rule's return value (`if detected:`)
Truthy(v) == v \notin {"", "False"}

\* `not landmarks or len(landmarks) < 21`
TooShort(arg) == arg.none \/ Len(arg.items) = 0 \/ Len(arg.items) < 21

\* faulty variant: the rule also reads index 21
SubscriptError_Reads21(arg) ==
    IF arg.none THEN "TypeError"
    ELSE IF Len(arg.items) < 22 THEN "IndexError"
    ELSE ""

\* outcome of subscripting up to index 20 without any length check
SubscriptError(arg) ==
    IF arg.none THEN "TypeError"
    ELSE IF Len(arg.items) < 21 THEN "IndexError"
    ELSE ""

(***************************************************************************)
(* Hands/A/left.py and Hands/A/right.py                                    *)
(***************************************************************************)

A_left_fingers_folded(p) ==
    /\ At(p, 8).y > At(p, 5).y
    /\ At(p, 12).y > At(p, 9).y
    /\ At(p, 16).y > At(p, 13).y
    /\ At(p, 20).y > At(p, 17).y

A_left_thumb_extended(p) == At(p, 4).x < At(p, 2).x

A_left_detect_left_hand(arg) ==
    IF SubscriptError(arg) # "" THEN Raised(SubscriptError(arg))
    ELSE IF A_left_fingers_folded(arg.items) /\ A_left_thumb_extended(arg.items)
         THEN Returned("A")
         ELSE Returned("")

A_right_fingers_folded(p) ==
    /\ At(p, 8).y > At(p, 6).y
    /\ At(p, 12).y > At(p, 10).y
    /\ At(p, 16).y > At(p, 14).y
    /\ At(p, 20).y > At(p, 18).y

A_right_thumb_extended(p) == At(p, 4).x > At(p, 3).x

A_right_detect_right_hand(arg) ==
    IF SubscriptError(arg) # "" THEN Raised(SubscriptError(arg))
    ELSE IF A_right_fingers_folded(arg.items) /\ A_right_thumb_extended(arg.items)
         THEN Returned("A")
         ELSE Returned("")

(***************************************************************************)
(* Hands/B/right.py: RightHandGestureDetector                              *)
(***************************************************************************)

\* RightHandGestureDetector() default argument 0.1
thumb_alignment_threshold == 10

\* faulty variant: the palm-facing test is dropped
_is_right_hand_palm_visible_Always(p) == TRUE

_is_right_hand_palm_visible(p) == CrossZ(At(p, 0), At(p, 5), At(p, 17)) > 0

_are_four_fingers_extended(p) ==
    /\ At(p, 8).y < At(p, 5).y
    /\ At(p, 12).y < At(p, 9).y
    /\ At(p, 16).y < At(p, 13).y
    /\ At(p, 20).y < At(p, 17).y

\* the detector's distances are planar: Point carries x and y only
PlanarDist2(a, b) == Sq(a.x - b.x) + Sq(a.y - b.y)

_is_thumb_folded_against_palm(p) ==
    LET distance_check == PlanarDist2(At(p, 4), At(p, 5)) < PlanarDist2(At(p, 4), At(p, 2))
        wrist_x == At(p, 0).x
        index_x == At(p, 5).x
        thumb_x == At(p, 4).x
        position_check ==
            IF wrist_x < index_x
            THEN wrist_x < thumb_x /\ thumb_x < index_x
            ELSE index_x < thumb_x /\ thumb_x < wrist_x
    IN  distance_check /\ position_check

\* faulty variant: the alignment of the thumb is not tested
_is_thumb_aligned_horizontally_Always(p) == TRUE

_is_thumb_aligned_horizontally(p) ==
    Abs(At(p, 4).y - At(p, 5).y) < thumb_alignment_threshold

detect_right_hand_b_gesture(arg) ==
    IF arg.none THEN Raised("TypeError")
    ELSE IF Len(arg.items) # 21 THEN Returned("")
    ELSE IF ~_is_right_hand_palm_visible(arg.items) THEN Returned("")
    ELSE IF /\ _are_four_fingers_extended(arg.items)
            /\ _is_thumb_folded_against_palm(arg.items)
            /\ _is_thumb_aligned_horizontally(arg.items)
         THEN Returned("B")
         ELSE Returned("")

B_right_detect_right_hand(arg) == detect_right_hand_b_gesture(arg)

(***************************************************************************)
(* Hands/C/left.py                                                         *)
(***************************************************************************)

\* the four (tip, mcp) index pairs of `fingers`
Fingers == <<<<8, 5>>, <<12, 9>>, <<16, 13>>, <<20, 17>>>>

\* tip_to_wrist > mcp_to_wrist * 0.9 and tip.z > mcp.z - 0.05
C_finger_curved(p, f) ==
    /\ DistGreater(At(p, f[1]), At(p, 0), 90, At(p, f[2]), At(p, 0))
    /\ At(p, f[1]).z > At(p, f[2]).z - 5

curved_count(p) == Cardinality({k \in 1..4 : C_finger_curved(p, Fingers[k])})

\* normal[2] of the palm normal
C_normal_z(p) == CrossZ(At(p, 0), At(p, 5), At(p, 17))

C_thumb_extended(p) == distance2(At(p, 4), At(p, 2)) > distance2(At(p, 3), At(p, 2))

\* 0.6 pw < thumb_to_index < 1.8 pw and 0.8 pw < thumb_to_pinky < 2.0 pw
thumb_separation_ok(p) ==
    /\ DistGreater(At(p, 4), At(p, 8), 60, At(p, 5), At(p, 17))
    /\ DistLess(At(p, 4), At(p, 8), 180, At(p, 5), At(p, 17))
    /\ DistGreater(At(p, 4), At(p, 20), 80, At(p, 5), At(p, 17))
    /\ DistLess(At(p, 4), At(p, 20), 200, At(p, 5), At(p, 17))

\* no two consecutive fingertip-to-wrist distances differ by more than 0.08
smooth_arc(p) ==
    \A k \in 1..3 :
        ~SqrtDiffGreater(distance2(At(p, Fingers[k][1]), At(p, 0)),
                         distance2(At(p, Fingers[k + 1][1]), At(p, 0)), 8)

fingers_not_extended(p) ==
    \A k \in 1..4 :
        DistLess(At(p, Fingers[k][1]), At(p, Fingers[k][2]), 120, At(p, Fingers[k][2]), At(p, 0))

fingers_not_closed(p) ==
    \A k \in 1..4 :
        DistGreater(At(p, Fingers[k][1]), At(p, 0), 80, At(p, Fingers[k][2]), At(p, 0))

\* faulty variant: the count of curved fingers is not tested
_detect_c_shape_internal_NoCount(p) ==
    IF C_normal_z(p) < 0 THEN FALSE
    ELSE IF ~(C_thumb_extended(p) /\ thumb_separation_ok(p)) THEN FALSE
    ELSE smooth_arc(p) /\ fingers_not_extended(p) /\ fingers_not_closed(p)

_detect_c_shape_internal(p) ==
    IF C_normal_z(p) < 0 THEN FALSE
    ELSE IF curved_count(p) < 3 THEN FALSE
    ELSE IF ~(C_thumb_extended(p) /\ thumb_separation_ok(p)) THEN FALSE
    ELSE smooth_arc(p) /\ fingers_not_extended(p) /\ fingers_not_closed(p)

C_left_detect_left_hand(arg) ==
    IF TooShort(arg) THEN Returned("False")
    ELSE Returned(PyBool(_detect_c_shape_internal(Mirror(arg.items))))

(***************************************************************************)
(* The tracker's output: the 21 landmarks of one hand.  The sets below are *)
(* the hands the model feeds to the rules: a right hand seen palm first    *)
(* (index side at smaller x), with each finger up, half curled or folded,  *)
(* the thumb tip at one of several places, and the same hand reflected.    *)
(***************************************************************************)

FingerStates == {"up", "half", "down", "under"}

\* offsets of PIP, DIP and TIP from the MCP, for a hand of size 1:
\* straight up; curled with the tip between PIP and MCP height; folded with
\* the tip below the MCP; bent forward with the whole finger below the MCP
FingerOffsets(st) ==
    IF st = "up" THEN <<<<0, -6>>, <<-1, -10>>, <<-1, -14>>>>
    ELSE IF st = "half" THEN <<<<-1, -6>>, <<-1, -4>>, <<-1, -3>>>>
    ELSE IF st = "down" THEN <<<<-1, -4>>, <<0, -1>>, <<0, 2>>>>
    ELSE <<<<0, 4>>, <<0, 5>>, <<0, 3>>>>

\* MCP, PIP, DIP, TIP offsets from the wrist of a finger whose MCP is at offset m
Finger(m, st) ==
    <<m>> \o [k \in 1..3 |-> <<m[1] + FingerOffsets(st)[k][1], m[2] + FingerOffsets(st)[k][2]>>]

\* offsets of the thumb tip from the wrist, for a hand of size 1
ThumbTips == {<<-2, -12>>, <<-2, -8>>, <<-10, -10>>, <<-6, -19>>, <<-8, -12>>, <<-2, -5>>}

\* depths of the finger and thumb tips
TipDepths == {0, -6}

\* a hand of size 1 has a palm 0.09 wide, a hand of size 2 one 0.18 wide
HandSizes == {1, 2}

\* index state ix, state ot of the other three fingers, thumb tip th, tip depth zt,
\* reflected when fl, every offset from the wrist multiplied by size
Hand(ix, ot, th, zt, fl, size) ==
    LET offsets ==
            <<<<0, 0>>, <<-3, -2>>, <<-7, -4>>, <<-9, -8>>, th>>
            \o Finger(<<-4, -14>>, ix) \o Finger(<<-1, -15>>, ot)
            \o Finger(<<2, -14>>, ot) \o Finger(<<5, -13>>, ot)
        upright ==
            [i \in 1..21 |->
                Point(50 + size * offsets[i][1], 90 + size * offsets[i][2],
                      IF i \in {5, 9, 13, 17, 21} THEN zt ELSE 0)]
    IN  IF fl THEN Mirror(upright) ELSE upright

LandmarkSets ==
    {Hand(ix, ot, th, zt, fl, size) :
        ix \in FingerStates, ot \in FingerStates, th \in ThumbTips,
        zt \in TipDepths, fl \in BOOLEAN, size \in HandSizes}

(***************************************************************************)
(* Rules of the registered letters whose module is not among the sources:  *)
(* Hands/B/left.py and Hands/C/right.py, after sections 4.2 and 4.5 of the *)
(* specification (a left hand is reflected and given to the right-hand     *)
(* rule body; a right hand is evaluated as given).                         *)
(***************************************************************************)

B_left_detect_left_hand(arg) ==
    IF arg.none THEN Raised("TypeError")
    ELSE detect_right_hand_b_gesture(PyList(Mirror(arg.items)))

C_right_detect_right_hand(arg) ==
    IF TooShort(arg) THEN Returned("False")
    ELSE Returned(PyBool(_detect_c_shape_internal(arg.items)))

(***************************************************************************)
(* ws_server.py: the registry and the classification loop                  *)
(***************************************************************************)

\* importlib.import_module(f"Hands.{letter}.left") / (...right")
ImportModules(l) == [left |-> <<l, "left">>, right |-> <<l, "right">>]

\* letter_modules[letter]["left"].detect_left_hand(points)
detect_left_hand(module, arg) ==
    CASE module = <<"A", "left">> -> A_left_detect_left_hand(arg)
      [] module = <<"B", "left">> -> B_left_detect_left_hand(arg)
      [] module = <<"C", "left">> -> C_left_detect_left_hand(arg)
      [] OTHER -> Raised("AttributeError")

\* letter_modules[letter]["right"].detect_right_hand(points)
detect_right_hand(module, arg) ==
    CASE module = <<"A", "right">> -> A_right_detect_right_hand(arg)
      [] module = <<"B", "right">> -> B_right_detect_right_hand(arg)
      [] module = <<"C", "right">> -> C_right_detect_right_hand(arg)
      [] OTHER -> Raised("AttributeError")

\* PointClass(lm.x, lm.y): the point a rule receives for tracker landmark lm
ConvertPoint(lm) == Point(lm.x, lm.y, 0)

\* [PointClass(lm.x, lm.y) for lm in mediapipe_landmarks]
convert_mediapipe_to_points(mediapipe_landmarks, label, l) ==
    IF mediapipe_landmarks.none THEN Raised("TypeError")
    ELSE Returned(PyList([i \in 1..Len(mediapipe_landmarks.items) |->
                              ConvertPoint(mediapipe_landmarks.items[i])]))

\* lines 94-97: the rule of letter l for the hand named by label
CallRule(modules, l, label, arg) ==
    IF label = "Left"
    THEN detect_left_hand(modules[l].left, arg)
    ELSE detect_right_hand(modules[l].right, arg)

\* one hand of results: hand_landmarks.landmark and classification[0].label
HandOf(landmark, label) == [landmark |-> landmark, label |-> label]

(***************************************************************************)
(* Bounds and inputs                                                       *)
(***************************************************************************)

\* messages delivered on the connection
MaxMessages == 3

\* list entries beyond the 21 landmarks
MaxExtra == 1

\* handedness labels: the tracker's two, an absent one and a foreign one
Labels == {"Left", "Right", "None", "Unknown"}

\* the first n entries of the 21 landmarks l, padded beyond 21
Resize(l, n) == [i \in 1..n |-> IF i <= 21 THEN l[i] ELSE Point(50, 50, 0)]

ListLengths == {0, 20, 21} \cup (22..(21 + MaxExtra))

\* list arguments of every length, and None
ListArgs == {PyNone} \cup {PyList(Resize(l, n)) : l \in LandmarkSets, n \in ListLengths}

\* hands in the frames sent to the server, with the tracker's label: a right
\* hand for each letter of the registry, a left hand that shows a letter and a
\* left hand that shows none
FrameHands ==
    {<<Hand("up", "up", th, -6, FALSE, 2), "Right">> : th \in {<<-2, -12>>, <<-6, -19>>}}
    \cup {<<Hand("half", "half", <<-6, -19>>, -6, FALSE, 2), "Right">>,
          <<Hand("up", "up", <<-2, -12>>, -6, TRUE, 2), "Left">>,
          <<Hand("up", "up", <<-2, -12>>, -6, FALSE, 2), "Left">>}

\* a websocket message: bytes that do not decode (imdecode returns None), bytes on
\* which decoding or tracking raises, or a frame with the hands the tracker finds
Messages ==
    {[kind |-> "undecodable", hands |-> <<>>], [kind |-> "corrupt", hands |-> <<>>],
     [kind |-> "frame", hands |-> <<>>]}
    \cup {[kind |-> "frame", hands |-> <<HandOf(PyList(h[1]), h[2])>>] : h \in FrameHands}

NoMessage == [kind |-> "none", hands |-> <<>>]

Response(t, status) == [translation |-> t, status |-> status]

(***************************************************************************)
(* ws_server.py: handle_client                                             *)
(***************************************************************************)

registry == <<LETTERS, letter_modules>>

\* the rule modules under Hands/: the files of the package, and the two modules
\* of registered letters taken from the specification
HandsModules ==
    {<<l, h>> : l \in {"A", "B", "C", "D", "E", "F"}, h \in {"left", "right"}}

\* the names a caller can use that the module defines at top level
ModuleNames(module) ==
    CASE module = <<"A", "left">> -> {"Point", "detect_left_hand"}
      [] module = <<"A", "right">> -> {"Point", "detect_right_hand"}
      [] module = <<"B", "left">> -> {"Point", "detect_left_hand"}
      [] module = <<"B", "right">> -> {"Point", "RightHandGestureDetector", "detect_right_hand",
                                      "detect_from_mediapipe_right_hand"}
      [] module = <<"C", "left">> -> {"Point", "detect_left_hand"}
      [] module = <<"C", "right">> -> {"Point", "detect_right_hand"}
      [] module = <<"D", "left">> -> {"Point", "detect_left_hand"}
      [] module = <<"D", "right">> -> {"Point", "detect_right_hand"}
      [] module = <<"E", "left">> -> {"Point", "detect_left_hand"}
      [] module = <<"E", "right">> -> {}
      [] module = <<"F", "left">> -> {"Point", "detect_left_hand_f_real_camera"}
      [] module = <<"F", "right">> -> {"Point", "detect_right_hand"}
      [] OTHER -> {}

\* the outcome of the latest message becomes o
SetOutcome(o) == [outcomes EXCEPT ![Len(outcomes)] = o]

\* faulty variant: the letter F is registered as well
BuildRegistry_WithF ==
    /\ LETTERS = <<"A", "B", "C", "F">>
    /\ letter_modules = [l \in {"A", "B", "C", "F"} |-> ImportModules(l)]

\* lines 13-24, at import of ws_server
BuildRegistry ==
    /\ LETTERS = <<"A", "B", "C">>
    /\ letter_modules = [l \in {"A", "B", "C"} |-> ImportModules(l)]

Init ==
    /\ BuildRegistry
    /\ pc = "recv"
    /\ conn = "open"
    /\ message = NoMessage
    /\ results = <<>>
    /\ hand = 1
    /\ letter = 1
    /\ points = PyList(<<>>)
    /\ detected = Returned("")
    /\ translation = ""
    /\ evaluated = <<>>
    /\ sent = <<>>
    /\ received = 0
    /\ outcomes = <<>>
    /\ log = {}
    /\ mirrored_landmarks = <<>>

\* line 60: `async for message in websocket` yields the next message
Receive ==
    /\ pc = "recv"
    /\ conn = "open"
    /\ received < MaxMessages
    /\ \E m \in Messages : message' = m
    /\ received' = received + 1
    /\ outcomes' = Append(outcomes, "pending")
    /\ pc' = "process"
    /\ UNCHANGED <<registry, mirrored_landmarks, conn, results, hand, letter, points, detected,
                   translation, evaluated, sent, log>>

\* the connection ends: the peer closes it with the closing handshake
\* ("closed", ConnectionClosedOK) or it is lost without one ("aborted",
\* ConnectionClosedError)
ClientCloses ==
    /\ conn = "open"
    /\ pc # "closed"
    /\ \E how \in {"closed", "aborted"} : conn' = how
    /\ UNCHANGED <<registry, outcomes, mirrored_landmarks, pc, message, results, hand, letter, points, detected,
                   translation, evaluated, sent, received, log>>

\* faulty variant: only the clean end of the connection is handled; the
\* exception of a lost connection leaves handle_client
LoopEnds_OnlyClean ==
    /\ pc = "recv"
    /\ conn # "open"
    /\ pc' = IF conn = "closed" THEN "closed" ELSE "raised"
    /\ UNCHANGED <<registry, outcomes, mirrored_landmarks, conn, message, results, hand, letter,
                   points, detected, translation, evaluated, sent, received, log>>

\* lines 60, 122-127: the message loop ends when the connection has ended: the
\* iteration stops or raises ConnectionClosedOK (122-123) after a clean close and
\* raises ConnectionClosedError (124-125) otherwise; then line 127 and the return
LoopEnds ==
    /\ pc = "recv"
    /\ conn # "open"
    /\ pc' = "closed"
    /\ UNCHANGED <<registry, outcomes, mirrored_landmarks, conn, message, results, hand, letter, points, detected,
                   translation, evaluated, sent, received, log>>

\* faulty variant: translation is not reset at line 71
ProcessFrame_NoReset ==
    /\ pc = "process"
    /\ IF message.kind = "undecodable" THEN
            /\ pc' = "recv"
            /\ UNCHANGED <<results, hand>>
            /\ outcomes' = SetOutcome("skipped")
       ELSE IF message.kind = "corrupt" THEN
            /\ pc' = "except"
            /\ UNCHANGED <<outcomes, results, hand>>
       ELSE /\ results' = message.hands
            /\ hand' = 1
            /\ pc' = "hands"
            /\ UNCHANGED outcomes
    /\ UNCHANGED <<registry, mirrored_landmarks, conn, message, letter, points, detected, evaluated,
                   translation, sent, received, log>>

\* lines 63-74: decode, track, reset translation
ProcessFrame ==
    /\ pc = "process"
    /\ IF message.kind = "undecodable" THEN
            /\ pc' = "recv"
            /\ UNCHANGED <<results, translation, hand>>
            /\ outcomes' = SetOutcome("skipped")
       ELSE IF message.kind = "corrupt" THEN
            /\ pc' = "except"
            /\ UNCHANGED <<outcomes, results, translation, hand>>
       ELSE /\ results' = message.hands
            /\ translation' = ""
            /\ hand' = 1
            /\ pc' = "hands"
            /\ UNCHANGED outcomes
    /\ UNCHANGED <<registry, mirrored_landmarks, conn, message, letter, points, detected, evaluated,
                   sent, received, log>>

\* lines 75-88: the zip loop takes the next hand
StartHand ==
    /\ pc = "hands"
    /\ hand <= Len(results)
    /\ letter' = 1
    /\ evaluated' = <<>>
    /\ pc' = "letters"
    /\ UNCHANGED <<registry, outcomes, mirrored_landmarks, conn, message, results, hand, points, detected,
                   translation, sent, received, log>>

\* lines 74-75: no hand (left) to look at
HandsDone ==
    /\ pc = "hands"
    /\ hand > Len(results)
    /\ pc' = "encode"
    /\ UNCHANGED <<registry, outcomes, mirrored_landmarks, conn, message, results, hand, letter, points, detected,
                   translation, evaluated, sent, received, log>>

\* faulty variant: the loop over LETTERS without its `break`
CheckLetter_NoBreak ==
    /\ pc = "letters"
    /\ letter <= Len(LETTERS)
    /\ LET h == results[hand]
           l == LETTERS[letter]
           conv == convert_mediapipe_to_points(h.landmark, h.label, l)
           call == CallRule(letter_modules, l, h.label, conv.ret)
       IN  IF conv.exc # "" THEN
                /\ pc' = "except"
                /\ UNCHANGED <<points, detected, translation, evaluated, letter>>
           ELSE /\ points' = conv.ret
                /\ evaluated' = Append(evaluated, l)
                /\ IF call.exc # "" THEN
                        /\ pc' = "except"
                        /\ UNCHANGED <<detected, translation, letter>>
                   ELSE /\ detected' = call
                        /\ translation' = IF Truthy(call.ret) THEN l ELSE translation
                        /\ letter' = letter + 1
                        /\ pc' = IF letter + 1 > Len(LETTERS)
                                 THEN "endhand" ELSE "letters"
    /\ UNCHANGED <<registry, outcomes, mirrored_landmarks, conn, message, results, hand, sent, received, log>>

\* lines 90-101: one iteration of `for letter in LETTERS`
CheckLetter ==
    /\ pc = "letters"
    /\ letter <= Len(LETTERS)
    /\ LET h == results[hand]
           l == LETTERS[letter]
           conv == convert_mediapipe_to_points(h.landmark, h.label, l)
           call == CallRule(letter_modules, l, h.label, conv.ret)
       IN  IF conv.exc # "" THEN
                /\ pc' = "except"
                /\ UNCHANGED <<points, detected, translation, evaluated, letter>>
           ELSE /\ points' = conv.ret
                /\ evaluated' = Append(evaluated, l)
                /\ IF call.exc # "" THEN
                        /\ pc' = "except"
                        /\ UNCHANGED <<detected, translation, letter>>
                   ELSE /\ detected' = call
                        /\ IF Truthy(call.ret)
                           THEN /\ translation' = l
                                /\ pc' = "endhand"
                                /\ UNCHANGED letter
                           ELSE /\ letter' = letter + 1
                                /\ pc' = IF letter + 1 > Len(LETTERS)
                                         THEN "endhand" ELSE "letters"
                                /\ UNCHANGED translation
    /\ UNCHANGED <<registry, outcomes, mirrored_landmarks, conn, message, results, hand, sent, received, log>>

\* lines 103-104: `if translation: break`
EndHand ==
    /\ pc = "endhand"
    /\ IF translation # ""
       THEN pc' = "encode" /\ UNCHANGED hand
       ELSE pc' = "hands" /\ hand' = hand + 1
    /\ UNCHANGED <<registry, outcomes, mirrored_landmarks, conn, message, results, letter, points, detected,
                   translation, evaluated, sent, received, log>>

\* faulty variant: the send is started but not awaited, the handler reads on
SendResponse_NotAwaited ==
    /\ pc = "encode"
    /\ log' = log \cup {<<results, translation>>}
    /\ pc' = "recv"
    /\ UNCHANGED <<registry, outcomes, mirrored_landmarks, conn, message, results, hand, letter,
                   points, detected, translation, evaluated, sent, received>>

\* lines 106-116: the success response; a send on a closed connection raises
SendResponse ==
    /\ pc = "encode"
    /\ log' = log \cup {<<results, translation>>}
    /\ IF conn = "open"
       THEN /\ sent' = Append(sent, Response(translation, "success"))
            /\ pc' = "recv"
            /\ outcomes' = SetOutcome("success")
       ELSE /\ pc' = "except"
            /\ UNCHANGED <<sent, outcomes>>
    /\ UNCHANGED <<registry, mirrored_landmarks, conn, message, results, hand, letter, points, detected,
                   translation, evaluated, received>>

\* faulty variant: the inner `except` re-raises instead of answering
HandleError_Reraises ==
    /\ pc = "except"
    /\ pc' = "closed"
    /\ UNCHANGED <<registry, outcomes, mirrored_landmarks, conn, message, results, hand, letter, points, detected,
                   translation, evaluated, sent, received, log>>

\* faulty variant: the inner `except` unregisters the letter whose rule failed
HandleError_Unregisters ==
    /\ pc = "except"
    /\ LETTERS' = SelectSeq(LETTERS, LAMBDA l : l # LETTERS[letter])
    /\ IF conn = "open"
       THEN /\ sent' = Append(sent, Response("", "error"))
            /\ pc' = "recv"
            /\ outcomes' = SetOutcome("error")
       ELSE /\ pc' = "closed"
            /\ UNCHANGED <<sent, outcomes>>
    /\ UNCHANGED <<letter_modules, mirrored_landmarks, conn, message, results, hand, letter,
                   points, detected, translation, evaluated, received, log>>

\* lines 118-120: the error response; when its send raises, lines 122-127 end the handler
HandleError ==
    /\ pc = "except"
    /\ IF conn = "open"
       THEN /\ sent' = Append(sent, Response("", "error"))
            /\ pc' = "recv"
            /\ outcomes' = SetOutcome("error")
       ELSE /\ pc' = "closed"
            /\ UNCHANGED <<sent, outcomes>>
    /\ UNCHANGED <<registry, mirrored_landmarks, conn, message, results, hand, letter, points, detected,
                   translation, evaluated, received, log>>

Next ==
    \/ Receive
    \/ ClientCloses
    \/ LoopEnds
    \/ ProcessFrame
    \/ StartHand
    \/ HandsDone
    \/ CheckLetter
    \/ EndHand
    \/ SendResponse
    \/ HandleError

Spec == Init /\ [][Next]_vars

\* the steps of the handler itself: all but the arrival of a message and the end
\* of the connection, which are the peer's
HandlerStep ==
    \/ LoopEnds
    \/ ProcessFrame
    \/ StartHand
    \/ HandsDone
    \/ CheckLetter
    \/ EndHand
    \/ SendResponse
    \/ HandleError

\* the event loop resumes a handler that can run; no step of it blocks
SpecLive == Init /\ [][Next]_vars /\ WF_vars(HandlerStep)

(***************************************************************************)
(* The classification of one hand (lines 75-104) as a function of the      *)
(* landmark list and the handedness label, on every list and label         *)
(***************************************************************************)

InitClassify ==
    /\ BuildRegistry
    /\ \E arg \in ListArgs, lab \in Labels :
            /\ results = <<HandOf(arg, lab)>>
            /\ message = [kind |-> "frame", hands |-> results]
    /\ pc = "hands"
    /\ conn = "open"
    /\ hand = 1
    /\ letter = 1
    /\ points = PyList(<<>>)
    /\ detected = Returned("")
    /\ translation = ""
    /\ evaluated = <<>>
    /\ sent = <<>>
    /\ received = 1
    /\ outcomes = <<"pending">>
    /\ log = {}
    /\ mirrored_landmarks = <<>>

NextClassify ==
    \/ StartHand
    \/ HandsDone
    \/ CheckLetter
    \/ EndHand

SpecClassify == InitClassify /\ [][NextClassify]_vars

(***************************************************************************)
(* One rule called on its own, on every list                               *)
(***************************************************************************)

InitRules ==
    /\ BuildRegistry
    /\ \E arg \in ListArgs, lab \in {"Left", "Right"} :
            /\ results = <<HandOf(arg, lab)>>
            /\ message = [kind |-> "frame", hands |-> results]
    /\ letter \in 1..Len(LETTERS)
    /\ pc = "call"
    /\ conn = "open"
    /\ hand = 1
    /\ points = PyList(<<>>)
    /\ detected = Returned("")
    /\ translation = ""
    /\ evaluated = <<>>
    /\ sent = <<>>
    /\ received = 1
    /\ outcomes = <<"pending">>
    /\ log = {}
    /\ mirrored_landmarks = <<>>

\* detect_left_hand(points) / detect_right_hand(points) of one module
ApplyRule ==
    /\ pc = "call"
    /\ points' = results[hand].landmark
    /\ detected' = CallRule(letter_modules, LETTERS[letter], results[hand].label,
                            results[hand].landmark)
    /\ evaluated' = <<LETTERS[letter]>>
    /\ pc' = "returned"
    /\ UNCHANGED <<registry, outcomes, mirrored_landmarks, conn, message, results, hand, letter, translation,
                   sent, received, log>>

NextRules == ApplyRule

SpecRules == InitRules /\ [][NextRules]_vars

(***************************************************************************)
(* Hands/F/right.py and Hands/F/left.py.  The modules are not registered   *)
(* in LETTERS; their rules are studied as functions.  The body of          *)
(* _detect_f_real_camera_internal (left.py) is the text of detect_right_   *)
(* hand (right.py) from the landmark extraction on.                        *)
(***************************************************************************)

\* (num/100) * distance(a, b) < d, for a coordinate difference d
ScaledDistLess(num, a, b, d) == d > 0 /\ Sq(num) * distance2(a, b) < 10000 * Sq(d)

\* (num/100) * distance(a, b) > d, for a coordinate difference d
ScaledDistGreater(num, a, b, d) == d < 0 \/ Sq(num) * distance2(a, b) > 10000 * Sq(d)

\* faulty variant: the contact threshold widened to 0.35 palm widths
tips_touching_Loose(p) == DistLess(At(p, 4), At(p, 8), 35, At(p, 5), At(p, 17))

\* thumb_index_distance < palm_width * 0.25
tips_touching(p) == DistLess(At(p, 4), At(p, 8), 25, At(p, 5), At(p, 17))

\* index_length < palm_length * 0.8 * 0.85
index_partially_bent(p) == DistLess(At(p, 8), At(p, 5), 68, At(p, 0), At(p, 9))

\* thumb_length > distance(thumb_ip, thumb_mcp) * 0.9
thumb_natural_position(p) == DistGreater(At(p, 4), At(p, 2), 90, At(p, 3), At(p, 2))

\* the (tip, pip, mcp) indices of extended_fingers_data
ExtendedFingers == <<<<12, 10, 9>>, <<16, 14, 13>>, <<20, 18, 17>>>>

is_finger_straight_and_extended(p, f) ==
    LET tip == At(p, f[1])
        pip == At(p, f[2])
        mcp == At(p, f[3])
        points_up == ScaledDistLess(20, At(p, 5), At(p, 17), mcp.y - tip.y)
        is_long_enough == DistGreater(tip, mcp, 70, At(p, 0), At(p, 9))
        joints_extended == DistGreater(tip, pip, 60, pip, mcp)
    IN  points_up /\ is_long_enough /\ joints_extended

straight_fingers_count(p) ==
    Cardinality({k \in 1..3 : is_finger_straight_and_extended(p, ExtendedFingers[k])})

\* min_spread < gap < max_spread for both gaps
good_spread(p) ==
    /\ DistGreater(At(p, 12), At(p, 16), 15, At(p, 5), At(p, 17))
    /\ DistLess(At(p, 12), At(p, 16), 50, At(p, 5), At(p, 17))
    /\ DistGreater(At(p, 16), At(p, 20), 15, At(p, 5), At(p, 17))
    /\ DistLess(At(p, 16), At(p, 20), 50, At(p, 5), At(p, 17))

index_separated_from_group(p) == DistGreater(At(p, 8), At(p, 12), 30, At(p, 5), At(p, 17))

\* index_tip.y > middle_tip.y - palm_width * 0.1
index_not_pointing_up(p) ==
    ScaledDistGreater(10, At(p, 5), At(p, 17), At(p, 12).y - At(p, 8).y)

\* normal[2] > -0.3, the normal in squared units
palm_facing_forward(p) == 10 * CrossZ(At(p, 0), At(p, 5), At(p, 17)) > -3 * Sq(One)

\* final_result of Hands/F/right.py
F_final_result(p) ==
    LET contact_ok == tips_touching(p) /\ index_partially_bent(p) /\ thumb_natural_position(p)
        fingers_ok == straight_fingers_count(p) >= 2
        spread_ok == good_spread(p)
        position_ok == index_separated_from_group(p) /\ index_not_pointing_up(p)
        orientation_ok == palm_facing_forward(p)
    IN  contact_ok /\ fingers_ok /\ spread_ok /\ position_ok /\ orientation_ok

F_right_detect_right_hand(arg) ==
    IF TooShort(arg) THEN Returned("False")
    ELSE Returned(PyBool(F_final_result(arg.items)))

_detect_f_real_camera_internal(p) == F_final_result(p)

\* faulty variant: the left-hand rule refuses lists longer than 21
detect_left_hand_f_real_camera_Exactly21(arg) ==
    IF arg.none \/ Len(arg.items) # 21 THEN Returned("False")
    ELSE Returned(PyBool(_detect_f_real_camera_internal(Mirror(arg.items))))

detect_left_hand_f_real_camera(arg) ==
    IF TooShort(arg) THEN Returned("False")
    ELSE Returned(PyBool(_detect_f_real_camera_internal(Mirror(arg.items))))

(***************************************************************************)
(* Hands shaped as the letter F and their variations: the thumb tip at     *)
(* several distances from the index tip, the index bent or straight, the   *)
(* three other tips well spread, too tight or too wide, and some of the    *)
(* three fingers kinked at the top joint.                                  *)
(***************************************************************************)

\* offsets of the thumb tip from the index tip
FThumbOffsets == {<<0, 1>>, <<0, 3>>, <<3, 1>>, <<0, 4>>}

\* depth of the thumb tip
FThumbDepths == {0, -3}

\* PIP, DIP and TIP of the index finger
FIndexShape(ix) ==
    IF ix = "bent" THEN <<<<43, 73>>, <<42, 72>>, <<42, 71>>>>
    ELSE <<<<44, 70>>, <<44, 66>>, <<44, 62>>>>

\* tips of the middle, ring and little finger
FTips(sp) ==
    IF sp = "good" THEN <<<<48, 59>>, <<52, 60>>, <<56, 63>>>>
    ELSE IF sp = "tight" THEN <<<<48, 59>>, <<49, 59>>, <<50, 60>>>>
    ELSE <<<<46, 59>>, <<53, 60>>, <<60, 63>>>>

\* MCP, PIP, DIP, TIP of the j-th of the three fingers; the last k are kinked
FFinger(j, sp, k) ==
    LET m == <<<<48, 75>>, <<52, 75>>, <<56, 77>>>>[j]
        t == FTips(sp)[j]
        pip == IF j > 3 - k THEN <<t[1], t[2] + 1>> ELSE <<m[1], m[2] - 6>>
    IN  <<m, pip, <<m[1], m[2] - 11>>, t>>

FHand(th, tz, ix, sp, k, fl) ==
    LET it == FIndexShape(ix)[3]
        xy == <<<<50, 90>>, <<46, 86>>, <<42, 82>>, <<41, 77>>,
                <<it[1] + th[1], it[2] + th[2]>>, <<44, 76>>>>
              \o FIndexShape(ix)
              \o FFinger(1, sp, k) \o FFinger(2, sp, k) \o FFinger(3, sp, k)
        upright == [i \in 1..21 |-> Point(xy[i][1], xy[i][2], IF i = 5 THEN tz ELSE 0)]
    IN  IF fl THEN Mirror(upright) ELSE upright

FLandmarkSets ==
    {FHand(th, tz, ix, sp, k, fl) :
        th \in FThumbOffsets, tz \in FThumbDepths, ix \in {"bent", "straight"},
        sp \in {"good", "tight", "wide"}, k \in 0..2, fl \in BOOLEAN}

FListArgs ==
    {PyNone} \cup {PyList(Resize(h, n)) : h \in FLandmarkSets, n \in ListLengths}

(***************************************************************************)
(* The F rule of one hand called on its own                                *)
(***************************************************************************)

InitF ==
    /\ BuildRegistry
    /\ \E arg \in FListArgs, lab \in {"Left", "Right"} :
            /\ results = <<HandOf(arg, lab)>>
            /\ message = [kind |-> "frame", hands |-> results]
    /\ pc = "call_F"
    /\ conn = "open"
    /\ hand = 1
    /\ letter = 1
    /\ points = PyList(<<>>)
    /\ detected = Returned("")
    /\ translation = ""
    /\ evaluated = <<>>
    /\ sent = <<>>
    /\ received = 1
    /\ outcomes = <<"pending">>
    /\ log = {}
    /\ mirrored_landmarks = <<>>

\* Hands/F/left.py detect_left_hand_f_real_camera(points) for a left hand,
\* Hands/F/right.py detect_right_hand(points) for a right hand
ApplyF ==
    /\ pc = "call_F"
    /\ points' = results[hand].landmark
    /\ detected' = IF results[hand].label = "Left"
                   THEN detect_left_hand_f_real_camera(results[hand].landmark)
                   ELSE F_right_detect_right_hand(results[hand].landmark)
    /\ evaluated' = <<"F">>
    /\ pc' = "returned_F"
    /\ UNCHANGED <<registry, outcomes, mirrored_landmarks, conn, message, results, hand, letter, translation,
                   sent, received, log>>

NextF == ApplyF

SpecF == InitF /\ [][NextF]_vars

(***************************************************************************)
(* The reflection of a left hand, Hands/C/left.py:36-38 (the same loop in  *)
(* Hands/F/left.py:38-40, a comprehension in Hands/D/left.py:40), in the   *)
(* arithmetic it runs in: x is a binary float and `1 - lm.x` rounds.  In   *)
(* this section a coordinate is an integer number of 2^-FracBits, and a    *)
(* float holds MantBits significant bits.                                  *)
(***************************************************************************)

FracBits == 6

MantBits == 3

RECURSIVE Pow2(_)
Pow2(n) == IF n = 0 THEN 1 ELSE 2 * Pow2(n - 1)

\* 1.0
FloatOne == Pow2(FracBits)

\* spacing of the floats around n >= 0
RECURSIVE Ulp(_)
Ulp(n) == IF n < Pow2(MantBits) THEN 1 ELSE 2 * Ulp(n \div 2)

\* faulty variant: rounding toward zero
RoundFloat_Truncates(n) == (n \div Ulp(n)) * Ulp(n)

\* the float nearest to n >= 0, ties to the even mantissa
RoundFloat(n) ==
    LET u == Ulp(n)
        lo == (n \div u) * u
    IN  IF 2 * (n - lo) < u THEN lo
        ELSE IF 2 * (n - lo) > u THEN lo + u
        ELSE IF (lo \div u) % 2 = 0 THEN lo ELSE lo + u

\* the floats of [0, 1]
Floats == {n \in 0..FloatOne : RoundFloat(n) = n}

\* a - b in floating point, for a >= b
FloatSub(a, b) == RoundFloat(a - b)

\* Point(1 - lm.x, lm.y, lm.z)
FloatMirrorPoint(lm) == Point(FloatSub(FloatOne, lm.x), lm.y, lm.z)

\* lists whose x alternate between two floats; y and z tell the entries apart
FloatLists ==
    {[i \in 1..n |-> Point(IF i % 2 = 1 THEN a ELSE b, i, -i)] :
        a \in Floats, b \in Floats, n \in ListLengths}

FloatListArgs == {PyNone} \cup {PyList(l) : l \in FloatLists}

InitMirror ==
    /\ BuildRegistry
    /\ \E arg \in FloatListArgs, lab \in {"Left", "Right"} :
            /\ results = <<HandOf(arg, lab)>>
            /\ message = [kind |-> "frame", hands |-> results]
    /\ pc = "enter"
    /\ conn = "open"
    /\ hand = 1
    /\ letter = 1
    /\ points = PyList(<<>>)
    /\ detected = Returned("")
    /\ translation = ""
    /\ evaluated = <<>>
    /\ sent = <<>>
    /\ received = 1
    /\ outcomes = <<"pending">>
    /\ log = {}
    /\ mirrored_landmarks = <<>>

\* entry of a rule: the length check, then for a left hand the reflection and
\* for a right hand the rule body on the list as given
EnterRule ==
    /\ pc = "enter"
    /\ IF TooShort(results[hand].landmark) THEN
            /\ detected' = Returned("False")
            /\ pc' = "returned_M"
            /\ UNCHANGED points
       ELSE IF results[hand].label = "Left" THEN
            /\ pc' = "mirror"
            /\ UNCHANGED <<points, detected>>
       ELSE /\ points' = results[hand].landmark
            /\ pc' = "body"
            /\ UNCHANGED detected
    /\ mirrored_landmarks' = <<>>
    /\ UNCHANGED <<registry, outcomes, conn, message, results, hand, letter, translation,
                   evaluated, sent, received, log>>

\* faulty variant: the reflection is written into the caller's point as well
MirrorAppend_InPlace ==
    /\ pc = "mirror"
    /\ LET i == Len(mirrored_landmarks) + 1
           lm == results[hand].landmark.items[i]
       IN  /\ mirrored_landmarks' = Append(mirrored_landmarks, FloatMirrorPoint(lm))
           /\ results' = [results EXCEPT ![hand].landmark.items[i] = FloatMirrorPoint(lm)]
           /\ IF i = Len(results[hand].landmark.items)
              THEN pc' = "body" /\ points' = PyList(mirrored_landmarks')
              ELSE UNCHANGED <<pc, points>>
    /\ UNCHANGED <<registry, outcomes, conn, message, hand, letter, detected, translation,
                   evaluated, sent, received, log>>

\* one iteration of `for lm in landmarks: mirrored_landmarks.append(...)`; after
\* the last one the new list is handed to the internal rule
MirrorAppend ==
    /\ pc = "mirror"
    /\ LET i == Len(mirrored_landmarks) + 1
           lm == results[hand].landmark.items[i]
       IN  /\ mirrored_landmarks' = Append(mirrored_landmarks, FloatMirrorPoint(lm))
           /\ IF i = Len(results[hand].landmark.items)
              THEN pc' = "body" /\ points' = PyList(mirrored_landmarks')
              ELSE UNCHANGED <<pc, points>>
    /\ UNCHANGED <<registry, outcomes, conn, message, results, hand, letter, detected,
                   translation, evaluated, sent, received, log>>

\* the reflected list is given to the left-hand rule once more; log keeps the
\* hand of the first call
CallAgain ==
    /\ pc = "body"
    /\ results[hand].label = "Left"
    /\ received = 1
    /\ log' = {results[hand]}
    /\ results' = <<HandOf(points, "Left")>>
    /\ message' = [kind |-> "frame", hands |-> results']
    /\ received' = 2
    /\ pc' = "enter"
    /\ UNCHANGED <<registry, outcomes, mirrored_landmarks, conn, hand, letter, points, detected,
                   translation, evaluated, sent>>

NextMirror ==
    \/ EnterRule
    \/ MirrorAppend
    \/ CallAgain

SpecMirror == InitMirror /\ [][NextMirror]_vars

(***************************************************************************)
(* angle_deg of Hands/D/right.py:16-25 (the same text in Hands/D/left.py). *)
(* The cosine is kept in hundredths and the angle in whole degrees.  The   *)
(* float quotient dot / (n1 * n2) carries a rounding error, here up to one *)
(* hundredth either way, so it can leave [-1, 1] for parallel rays.        *)
(***************************************************************************)

\* cos_a = 1.0 in hundredths
CosOne == 100

\* vec(a, b)
vec(a, b) == [x |-> b.x - a.x, y |-> b.y - a.y, z |-> b.z - a.z]

\* np.dot(v1, v2)
dot(v1, v2) == v1.x * v2.x + v1.y * v2.y + v1.z * v2.z

\* k/100 <= d / sqrt(n), for n > 0
CosAtLeast(d, n, k) ==
    IF k <= 0 /\ d >= 0 THEN TRUE
    ELSE IF k > 0 /\ d < 0 THEN FALSE
    ELSE IF k > 0 THEN Sq(k) * n <= Sq(CosOne) * Sq(d)
    ELSE Sq(k) * n >= Sq(CosOne) * Sq(d)

\* dot / (n1 * n2) in hundredths, rounded down
Quotient(d, n) ==
    Cardinality({k \in -CosOne..CosOne : CosAtLeast(d, n, k)}) - CosOne - 1

\* faulty variant: the cosine is not clamped
Clamp_Missing(cos_a) == cos_a

\* max(-1.0, min(1.0, cos_a))
Clamp(cos_a) ==
    IF cos_a > CosOne THEN CosOne
    ELSE IF cos_a < -CosOne THEN -CosOne
    ELSE cos_a

\* math.degrees(math.acos(k/100)) to the nearest degree, for k = -100..100
AcosDegrees ==
    <<
       180, 172, 169, 166, 164, 162, 160, 158, 157, 156, 154, 153, 152, 150, 149,
       148, 147, 146, 145, 144, 143, 142, 141, 140, 139, 139, 138, 137, 136, 135,
       134, 134, 133, 132, 131, 131, 130, 129, 128, 128, 127, 126, 125, 125, 124,
       123, 123, 122, 121, 121, 120, 119, 119, 118, 117, 117, 116, 115, 115, 114,
       114, 113, 112, 112, 111, 110, 110, 109, 109, 108, 107, 107, 106, 106, 105,
       104, 104, 103, 103, 102, 102, 101, 100, 100, 99, 99, 98, 97, 97, 96,
       96, 95, 95, 94, 93, 93, 92, 92, 91, 91, 90, 89, 89, 88, 88,
       87, 87, 86, 85, 85, 84, 84, 83, 83, 82, 81, 81, 80, 80, 79,
       78, 78, 77, 77, 76, 76, 75, 74, 74, 73, 73, 72, 71, 71, 70,
       70, 69, 68, 68, 67, 66, 66, 65, 65, 64, 63, 63, 62, 61, 61,
       60, 59, 59, 58, 57, 57, 56, 55, 55, 54, 53, 52, 52, 51, 50,
       49, 49, 48, 47, 46, 46, 45, 44, 43, 42, 41, 41, 40, 39, 38,
       37, 36, 35, 34, 33, 32, 31, 30, 28, 27, 26, 24, 23, 22, 20,
       18, 16, 14, 11, 8, 0
    >>

\* math.degrees(math.acos(cos_a)); math.acos raises outside [-1, 1]
acos_degrees(cos_a) ==
    IF cos_a > CosOne \/ cos_a < -CosOne THEN Raised("ValueError")
    ELSE Returned(AcosDegrees[cos_a + CosOne + 1])

\* angle_deg(a, b, c) when the float quotient is off by err hundredths
angle_deg(a, b, c, err) ==
    LET v1 == vec(b, a)
        v2 == vec(b, c)
        n1sq == dot(v1, v1)
        n2sq == dot(v2, v2)
    IN  IF n1sq = 0 \/ n2sq = 0 THEN Returned(180)
        ELSE acos_degrees(Clamp(Quotient(dot(v1, v2), n1sq * n2sq) + err))

\* rounding errors of the quotient, in hundredths
QuotientErrors == {-1, 0, 1}

\* the points angle_deg is called on
AnglePoints == {Point(x, y, z) : x \in 0..2, y \in 0..2, z \in 0..1}

InitAngle ==
    /\ BuildRegistry
    /\ \E a \in AnglePoints, b \in AnglePoints, c \in AnglePoints :
            points = PyList(<<a, b, c>>)
    /\ pc = "call_angle"
    /\ conn = "open"
    /\ message = NoMessage
    /\ results = <<>>
    /\ hand = 1
    /\ letter = 1
    /\ detected = Returned("")
    /\ translation = ""
    /\ evaluated = <<>>
    /\ sent = <<>>
    /\ received = 0
    /\ outcomes = <<>>
    /\ log = {}
    /\ mirrored_landmarks = <<>>

\* one call angle_deg(a, b, c)
ApplyAngle ==
    /\ pc = "call_angle"
    /\ \E err \in QuotientErrors :
            detected' = angle_deg(points.items[1], points.items[2], points.items[3], err)
    /\ pc' = "returned_angle"
    /\ UNCHANGED <<registry, outcomes, mirrored_landmarks, conn, message, results, hand, letter,
                   points, translation, evaluated, sent, received, log>>

NextAngle == ApplyAngle

SpecAngle == InitAngle /\ [][NextAngle]_vars

(***************************************************************************)
(* Hands/D/right.py and Hands/D/left.py.  The modules are not registered   *)
(* in LETTERS; their rules are studied as functions.  Angles are whole     *)
(* degrees as angle_deg yields them; a distance compared with              *)
(* max(k * palm_width, c) is compared with both bounds.                    *)
(***************************************************************************)

\* right.py: angle_deg(a, b, c) on the floats of one call
D_right_angle(a, b, c) == angle_deg(a, b, c, 0).ret

\* right.py:58  d < max(palm_width * 0.4, 0.03), d the distance from a to b
D_right_within_contact(p, a, b) ==
    DistLess(a, b, 40, At(p, 5), At(p, 17)) \/ distance2(a, b) < Sq(3)

\* right.py:60-69
D_right_index_extended(p) ==
    LET index_angle_pip == D_right_angle(At(p, 5), At(p, 6), At(p, 8))
        index_angle_dip == D_right_angle(At(p, 5), At(p, 7), At(p, 8))
        index_points_up == At(p, 8).y < At(p, 5).y - 3
    IN  index_angle_pip > 150 /\ index_angle_dip > 140 /\ index_points_up

\* right.py:72-76
D_right_is_curled(mcp, pip, tip) ==
    D_right_angle(mcp, pip, tip) < 120 \/ DistLess(tip, mcp, 95, pip, mcp)

\* right.py:78-81
D_right_curled_count(p) ==
    Cardinality({k \in {9, 13, 17} : D_right_is_curled(At(p, k), At(p, k + 1), At(p, k + 3))})

\* faulty variant: the contact of the thumb with a curled finger is not tested
D_right_thumb_contacts_Always(p) == TRUE

\* right.py:84-92
D_right_thumb_contacts(p) ==
    \/ D_right_within_contact(p, At(p, 4), At(p, 12))
    \/ D_right_within_contact(p, At(p, 4), At(p, 16))
    \/ D_right_within_contact(p, At(p, 4), At(p, 20))

\* right.py:95
D_right_thumb_not_touch_index(p) ==
    /\ DistGreater(At(p, 4), At(p, 8), 25, At(p, 5), At(p, 17))
    /\ distance2(At(p, 4), At(p, 8)) > Sq(3)

\* right.py:98-99
D_right_sep_ok(p) ==
    /\ DistGreater(At(p, 8), At(p, 12), 30, At(p, 5), At(p, 17))
    /\ distance2(At(p, 8), At(p, 12)) > Sq(5)

\* right.py:102-106
D_right_all_criteria_met(p) ==
    /\ D_right_index_extended(p)
    /\ D_right_curled_count(p) >= 2
    /\ D_right_thumb_contacts(p)
    /\ D_right_thumb_not_touch_index(p)
    /\ D_right_sep_ok(p)

\* Hands/D/right.py detect_right_hand
D_right_detect_right_hand(arg) ==
    IF TooShort(arg) THEN Returned("False")
    ELSE Returned(PyBool(D_right_all_criteria_met(arg.items)))

\* left.py: angle_deg(a, b, c) on the floats of one call
D_left_angle(a, b, c) == angle_deg(a, b, c, 0).ret

\* left.py:62-64
D_left_is_curled(mcp, pip, tip) ==
    D_left_angle(mcp, pip, tip) < 120 \/ DistLess(tip, mcp, 95, pip, mcp)

\* left.py:43-103
_detect_d_internal(p) ==
    LET index_angle_pip == D_left_angle(At(p, 5), At(p, 6), At(p, 8))
        index_angle_dip == D_left_angle(At(p, 5), At(p, 7), At(p, 8))
        index_points_up == At(p, 8).y < At(p, 5).y - 3
        index_extended == index_angle_pip > 150 /\ index_angle_dip > 140 /\ index_points_up
        middle_curled == D_left_is_curled(At(p, 9), At(p, 10), At(p, 12))
        ring_curled == D_left_is_curled(At(p, 13), At(p, 14), At(p, 16))
        pinky_curled == D_left_is_curled(At(p, 17), At(p, 18), At(p, 20))
        curled_count == (IF middle_curled THEN 1 ELSE 0) + (IF ring_curled THEN 1 ELSE 0)
                        + (IF pinky_curled THEN 1 ELSE 0)
        contact(t) == \/ DistLess(At(p, 4), At(p, t), 40, At(p, 5), At(p, 17))
                      \/ distance2(At(p, 4), At(p, t)) < Sq(3)
        thumb_contacts == contact(12) \/ contact(16) \/ contact(20)
        thumb_not_touch_index ==
            /\ DistGreater(At(p, 4), At(p, 8), 25, At(p, 5), At(p, 17))
            /\ distance2(At(p, 4), At(p, 8)) > Sq(3)
        sep_ok ==
            /\ DistGreater(At(p, 8), At(p, 12), 30, At(p, 5), At(p, 17))
            /\ distance2(At(p, 8), At(p, 12)) > Sq(5)
    IN  index_extended /\ curled_count >= 2 /\ thumb_contacts /\ thumb_not_touch_index
        /\ sep_ok

\* faulty variant: the left-hand rule refuses lists longer than 21
D_left_detect_left_hand_Exactly21(arg) ==
    IF arg.none \/ Len(arg.items) # 21 THEN Returned("False")
    ELSE Returned(PyBool(_detect_d_internal(Mirror(arg.items))))

\* Hands/D/left.py detect_left_hand
D_left_detect_left_hand(arg) ==
    IF TooShort(arg) THEN Returned("False")
    ELSE Returned(PyBool(_detect_d_internal(Mirror(arg.items))))

(***************************************************************************)
(* The D rule of one hand called on its own                                *)
(***************************************************************************)

InitD ==
    /\ BuildRegistry
    /\ \E arg \in ListArgs, lab \in {"Left", "Right"} :
            /\ results = <<HandOf(arg, lab)>>
            /\ message = [kind |-> "frame", hands |-> results]
    /\ pc = "call_D"
    /\ conn = "open"
    /\ hand = 1
    /\ letter = 1
    /\ points = PyList(<<>>)
    /\ detected = Returned("")
    /\ translation = ""
    /\ evaluated = <<>>
    /\ sent = <<>>
    /\ received = 1
    /\ outcomes = <<"pending">>
    /\ log = {}
    /\ mirrored_landmarks = <<>>

\* Hands/D/left.py detect_left_hand(points) for a left hand,
\* Hands/D/right.py detect_right_hand(points) for a right hand
ApplyD ==
    /\ pc = "call_D"
    /\ points' = results[hand].landmark
    /\ detected' = IF results[hand].label = "Left"
                   THEN D_left_detect_left_hand(results[hand].landmark)
                   ELSE D_right_detect_right_hand(results[hand].landmark)
    /\ evaluated' = <<"D">>
    /\ pc' = "returned_D"
    /\ UNCHANGED <<registry, outcomes, mirrored_landmarks, conn, message, results, hand, letter, translation,
                   sent, received, log>>

NextD == ApplyD

SpecD == InitD /\ [][NextD]_vars

(***************************************************************************)
(* ws_server.py: several connections served by one event loop (main,       *)
(* lines 132-135).  websockets.serve starts one handle_client coroutine    *)
(* per connection; a coroutine gives up the loop only at its awaits (lines *)
(* 60, 116, 120), so the text between two awaits runs without the other    *)
(* handlers.  In this specification pc, conn, message, results,            *)
(* translation and sent hold one value per handler: they are the locals    *)
(* and the websocket of each coroutine.                                    *)
(***************************************************************************)

\* the connections open at the same time
Clients == {"c1", "c2"}

\* the hands in the clients' frames: one per letter of the registry
ClientHands ==
    {Hand("up", "up", th, -6, FALSE, 2) : th \in {<<-2, -12>>, <<-6, -19>>}}
    \cup {Hand("half", "half", <<-6, -19>>, -6, FALSE, 2)}

\* what the clients send: bytes that do not decode, bytes on which processing
\* raises, a frame without a hand and frames with one right hand
ClientMessages ==
    {[kind |-> "undecodable", hands |-> <<>>], [kind |-> "corrupt", hands |-> <<>>],
     [kind |-> "frame", hands |-> <<>>]}
    \cup {[kind |-> "frame", hands |-> <<HandOf(PyList(l), "Right")>>] : l \in ClientHands}

RECURSIVE check_letters(_, _)
\* lines 90-101: `for letter in LETTERS` from position k on, for hand h
check_letters(h, k) ==
    IF k > Len(LETTERS) THEN Returned("")
    ELSE LET l == LETTERS[k]
             conv == convert_mediapipe_to_points(h.landmark, h.label, l)
             call == CallRule(letter_modules, l, h.label, conv.ret)
         IN  IF conv.exc # "" THEN Raised(conv.exc)
             ELSE IF call.exc # "" THEN Raised(call.exc)
             ELSE IF Truthy(call.ret) THEN Returned(l)
             ELSE check_letters(h, k + 1)

RECURSIVE check_hands(_, _)
\* lines 71-104: the zip loop from hand i on, with translation still ""
check_hands(res, i) ==
    IF i > Len(res) THEN Returned("")
    ELSE LET r == check_letters(res[i], 1)
         IN  IF r.exc # "" \/ r.ret # "" THEN r ELSE check_hands(res, i + 1)

InitClients ==
    /\ BuildRegistry
    /\ pc = [c \in Clients |-> "recv"]
    /\ conn = [c \in Clients |-> "open"]
    /\ message = [c \in Clients |-> NoMessage]
    /\ results = [c \in Clients |-> <<>>]
    /\ translation = [c \in Clients |-> ""]
    /\ sent = [c \in Clients |-> <<>>]
    /\ received = 0
    /\ outcomes = <<>>
    /\ log = {}
    /\ hand = 1
    /\ letter = 1
    /\ points = PyList(<<>>)
    /\ detected = Returned("")
    /\ evaluated = <<>>
    /\ mirrored_landmarks = <<>>

\* faulty variant: translation is one module-level name shared by the handlers
HandlerRuns_SharedTranslation(c) ==
    /\ pc[c] = "recv"
    /\ conn[c] = "open"
    /\ received < MaxMessages
    /\ received' = received + 1
    /\ \E m \in ClientMessages :
        /\ message' = [message EXCEPT ![c] = m]
        /\ IF m.kind = "undecodable" THEN
                UNCHANGED <<pc, results, translation>>
           ELSE IF m.kind = "corrupt" THEN
                /\ pc' = [pc EXCEPT ![c] = "send_error"]
                /\ UNCHANGED <<results, translation>>
           ELSE LET r == check_hands(m.hands, 1)
                IN  /\ results' = [results EXCEPT ![c] = m.hands]
                    /\ translation' = [d \in Clients |-> r.ret]
                    /\ pc' = [pc EXCEPT ![c] = IF r.exc # "" THEN "send_error" ELSE "send"]
    /\ UNCHANGED <<registry, outcomes, mirrored_landmarks, conn, hand, letter, points, detected,
                   evaluated, sent, log>>

\* lines 60-115: a message arrives and the handler runs up to the await of its answer
HandlerRuns(c) ==
    /\ pc[c] = "recv"
    /\ conn[c] = "open"
    /\ received < MaxMessages
    /\ received' = received + 1
    /\ \E m \in ClientMessages :
        /\ message' = [message EXCEPT ![c] = m]
        /\ IF m.kind = "undecodable" THEN
                UNCHANGED <<pc, results, translation>>
           ELSE IF m.kind = "corrupt" THEN
                /\ pc' = [pc EXCEPT ![c] = "send_error"]
                /\ UNCHANGED <<results, translation>>
           ELSE LET r == check_hands(m.hands, 1)
                IN  /\ results' = [results EXCEPT ![c] = m.hands]
                    /\ translation' = [translation EXCEPT ![c] = r.ret]
                    /\ pc' = [pc EXCEPT ![c] = IF r.exc # "" THEN "send_error" ELSE "send"]
    /\ UNCHANGED <<registry, outcomes, mirrored_landmarks, conn, hand, letter, points, detected,
                   evaluated, sent, log>>

\* line 116: the awaited send of the success response completes; on a closed
\* connection it raises, the send of line 120 raises too and lines 122-127 end the handler
HandlerSends(c) ==
    /\ pc[c] = "send"
    /\ IF conn[c] = "open"
       THEN /\ sent' = [sent EXCEPT ![c] = Append(@, Response(translation[c], "success"))]
            /\ pc' = [pc EXCEPT ![c] = "recv"]
       ELSE /\ pc' = [pc EXCEPT ![c] = "closed"]
            /\ UNCHANGED sent
    /\ UNCHANGED <<registry, outcomes, mirrored_landmarks, conn, message, results, hand, letter, points,
                   detected, translation, evaluated, received, log>>

\* lines 118-120: the awaited send of the error response completes, or raises
HandlerSendsError(c) ==
    /\ pc[c] = "send_error"
    /\ IF conn[c] = "open"
       THEN /\ sent' = [sent EXCEPT ![c] = Append(@, Response("", "error"))]
            /\ pc' = [pc EXCEPT ![c] = "recv"]
       ELSE /\ pc' = [pc EXCEPT ![c] = "closed"]
            /\ UNCHANGED sent
    /\ UNCHANGED <<registry, outcomes, mirrored_landmarks, conn, message, results, hand, letter, points,
                   detected, translation, evaluated, received, log>>

\* the peer of handler c closes its connection
PeerCloses(c) ==
    /\ conn[c] = "open"
    /\ pc[c] # "closed"
    /\ conn' = [conn EXCEPT ![c] = "closed"]
    /\ UNCHANGED <<registry, outcomes, mirrored_landmarks, pc, message, results, hand, letter, points,
                   detected, translation, evaluated, sent, received, log>>

\* lines 60, 122-127: the message loop of handler c ends
HandlerEnds(c) ==
    /\ pc[c] = "recv"
    /\ conn[c] = "closed"
    /\ pc' = [pc EXCEPT ![c] = "closed"]
    /\ UNCHANGED <<registry, outcomes, mirrored_landmarks, conn, message, results, hand, letter, points,
                   detected, translation, evaluated, sent, received, log>>

NextClients ==
    \E c \in Clients :
        \/ HandlerRuns(c)
        \/ HandlerSends(c)
        \/ HandlerSendsError(c)
        \/ PeerCloses(c)
        \/ HandlerEnds(c)

SpecClients == InitClients /\ [][NextClients]_vars

(***************************************************************************)
(* Vocabulary of the properties                                            *)
(***************************************************************************)

\* the hand whose classification the state holds
TheHand == results[1]

\* exactly 21 landmarks and one of the tracker's two labels
ValidHand(h) ==
    /\ ~h.landmark.none
    /\ Len(h.landmark.items) = 21
    /\ h.label \in {"Left", "Right"}

Letters == {LETTERS[k] : k \in 1..Len(LETTERS)}

\* the rule of letter l, called as the handler calls it on hand h, returns a true value
RuleTrue(l, h) ==
    LET conv == convert_mediapipe_to_points(h.landmark, h.label, l)
    IN  /\ conv.exc = ""
        /\ CallRule(letter_modules, l, h.label, conv.ret).exc = ""
        /\ Truthy(CallRule(letter_modules, l, h.label, conv.ret).ret)

\* positions in LETTERS of the letters whose rule is true of h
Matches(h) == {k \in 1..Len(LETTERS) : RuleTrue(LETTERS[k], h)}

\* the earliest registered letter whose rule is true of h, or ""
FirstMatch(h) ==
    IF Matches(h) = {} THEN ""
    ELSE LETTERS[CHOOSE k \in Matches(h) : \A j \in Matches(h) : k <= j]

\* C1: for every set of exactly 21 landmarks and handedness Left or Right, the
\* loop over LETTERS never raises and its translation is a registered letter or ""
C1_ClassifyTotal ==
    ValidHand(TheHand) =>
        /\ pc # "except"
        /\ detected.exc = ""
        /\ translation \in Letters \cup {""}

\* a valid hand went through all three rules and the last one matched
C1_Witness ==
    /\ ValidHand(TheHand)
    /\ pc = "encode"
    /\ evaluated = LETTERS
    /\ translation = LETTERS[Len(LETTERS)]

\* C2: the classification is the first letter of LETTERS whose rule is true, no
\* rule after it is evaluated, and it is "" exactly when no rule is true (then
\* every rule was evaluated)
C2_FirstMatchWins ==
    pc = "encode" =>
        IF Matches(TheHand) = {}
        THEN translation = "" /\ evaluated = LETTERS
        ELSE \E k \in Matches(TheHand) :
                /\ \A j \in Matches(TheHand) : k <= j
                /\ translation = LETTERS[k]
                /\ evaluated = SubSeq(LETTERS, 1, k)

\* a hand of which several rules are true was classified as the earliest one
C2_Witness ==
    /\ pc = "encode"
    /\ ValidHand(TheHand)
    /\ Cardinality(Matches(TheHand)) >= 2
    /\ translation = LETTERS[1]
    /\ evaluated = <<LETTERS[1]>>

\* C3: the right-hand classification of a 21-point set equals the left-hand
\* classification of its mirror image (x replaced by 1 - x)
C3_MirrorSymmetry ==
    (pc = "encode" /\ ValidHand(TheHand) /\ TheHand.label = "Right") =>
        translation = FirstMatch(HandOf(PyList(Mirror(TheHand.landmark.items)), "Left"))

\* C4: a rule called on None, on an empty list or on a list shorter than 21
\* returns a non-match and does not raise
C4_ShortListNoMatch ==
    (pc = "returned" /\ TooShort(TheHand.landmark)) =>
        /\ detected.exc = ""
        /\ ~Truthy(detected.ret)

\* C5: a rule called on a list whose length is not 21 never reports a match
C5_Exactly21 ==
    (pc = "returned" /\ ~TheHand.landmark.none /\ Len(TheHand.landmark.items) # 21) =>
        ~Truthy(detected.ret)

\* C6: with a handedness that is neither Left nor Right no rule is evaluated
\* and no letter is returned
C6_UnknownHandedness ==
    (~TheHand.landmark.none /\ Len(TheHand.landmark.items) = 21
        /\ TheHand.label \notin {"Left", "Right"}) =>
        /\ evaluated = <<>>
        /\ translation = ""

\* landmarks l with x and y scaled by k about the wrist, z kept
Scale(l, k) ==
    [i \in 1..Len(l) |->
        Point(l[1].x + k * (l[i].x - l[1].x), l[1].y + k * (l[i].y - l[1].y), l[i].z)]

\* every x and y within the image
InImage(l) ==
    \A i \in 1..Len(l) : l[i].x >= 0 /\ l[i].x <= One /\ l[i].y >= 0 /\ l[i].y <= One

ScaleFactors == {2}

\* C7: an exception raised while a frame is processed never ends the handler: it
\* is answered, while the connection is open, by one error response with the
\* empty translation, and the handler is back at the head of its message loop
C7_BadFrameDoesNotEndLoop ==
    [][/\ pc \in {"process", "hands", "letters", "endhand"} => pc' # "closed"
       /\ (pc = "except" /\ conn = "open" /\ pc' # pc) =>
            /\ pc' = "recv"
            /\ conn' = "open"
            /\ sent' = Append(sent, Response("", "error"))]_vars

\* a frame that raised was answered with an error and a later frame was classified
C7_Witness ==
    \E i \in 1..Len(sent) :
        /\ sent[i] = Response("", "error")
        /\ i < Len(sent)
        /\ sent[i + 1].status = "success"
        /\ sent[i + 1].translation # ""

\* C8: two frames with the same landmarks and handedness get the same
\* translation, whatever was processed before or between them
C8_NoHiddenState ==
    \A e1 \in log : \A e2 \in log : e1[1] = e2[1] => e1[2] = e2[2]

\* a hand that was classified before is classified again, after another frame
C8_Witness ==
    /\ pc = "encode"
    /\ results # <<>>
    /\ translation = ""
    /\ \E e \in log : e[1] = results
    /\ \E e \in log : e[1] # results /\ e[2] # ""

\* C9: scaling x and y of all landmarks about the wrist by a factor k leaves
\* the classification unchanged
C9_ScaleInvariance ==
    (pc = "encode" /\ ValidHand(TheHand)) =>
        \A k \in ScaleFactors :
            InImage(Scale(TheHand.landmark.items, k)) =>
                translation = FirstMatch(HandOf(PyList(Scale(TheHand.landmark.items, k)),
                                                TheHand.label))

\* the four fingertips lie below their finger bases (larger y) and the thumb
\* tip lies beyond both thumb joints on the outward side of the hand h
FoldedFistThumbOut(h) ==
    LET p == h.landmark.items
    IN  /\ At(p, 8).y > At(p, 5).y
        /\ At(p, 12).y > At(p, 9).y
        /\ At(p, 16).y > At(p, 13).y
        /\ At(p, 20).y > At(p, 17).y
        /\ IF h.label = "Right"
           THEN At(p, 4).x > At(p, 3).x /\ At(p, 4).x > At(p, 2).x
           ELSE At(p, 4).x < At(p, 3).x /\ At(p, 4).x < At(p, 2).x

\* C10: a folded fist with the thumb to the side classifies as A, for a right
\* hand and, in mirrored coordinates, for a left hand
C10_FoldedFistIsA ==
    (pc = "encode" /\ ValidHand(TheHand) /\ FoldedFistThumbOut(TheHand)) =>
        translation = "A"


\* the state after the rule of letter l for the hand named side was called on a
\* list of 21 landmarks
RuleReturned(l, side) ==
    /\ pc = "returned"
    /\ LETTERS[letter] = l
    /\ TheHand.label = side
    /\ ~TheHand.landmark.none
    /\ Len(TheHand.landmark.items) = 21

\* C11: the B rule returns no match on every set whose cross product of (wrist to
\* index MCP) and (wrist to pinky MCP) is not positive, and on the x-mirror of
\* every set it matches as 'B'
C11_BNeedsPalmFacing ==
    RuleReturned("B", "Right") =>
        LET p == TheHand.landmark.items
        IN  /\ CrossZ(At(p, 0), At(p, 5), At(p, 17)) <= 0 => detected = Returned("")
            /\ detect_right_hand_b_gesture(PyList(Mirror(p))) = Returned("B") =>
                    detected = Returned("")

\* the mirror image of a hand matched as 'B' got no match
C11_Witness ==
    /\ RuleReturned("B", "Right")
    /\ detect_right_hand_b_gesture(PyList(Mirror(TheHand.landmark.items))) = Returned("B")
    /\ CrossZ(At(TheHand.landmark.items, 0), At(TheHand.landmark.items, 5),
              At(TheHand.landmark.items, 17)) < 0
    /\ detected = Returned("")


\* the state after the F rule of the hand's side was called on a list of 21 landmarks
FReturned ==
    /\ pc = "returned_F"
    /\ ~TheHand.landmark.none
    /\ Len(TheHand.landmark.items) = 21

\* the landmarks of h as the rules see them: a left hand reflected
Canonical(h) == IF h.label = "Left" THEN Mirror(h.landmark.items) ELSE h.landmark.items

\* thumb tip within 0.2 palm widths of the index tip; middle, ring and little
\* finger straight; their tips spread within the palm-width bounds
PinchThreeExtended(p) ==
    /\ DistLess(At(p, 4), At(p, 8), 20, At(p, 5), At(p, 17))
    /\ \A k \in 1..3 : is_finger_straight_and_extended(p, ExtendedFingers[k])
    /\ good_spread(p)

\* C12: every 21-point set with the thumb tip within 0.2 palm widths of the
\* index tip and the other three fingers straight and spread is matched as F
C12_PinchIsF ==
    (FReturned /\ PinchThreeExtended(Canonical(TheHand))) => Truthy(detected.ret)


\* C13: the F rule of either hand never matches a set whose thumb tip is
\* farther than 0.3 palm widths from the index tip
C13_FarThumbNoF ==
    (FReturned /\ DistGreater(At(Canonical(TheHand), 4), At(Canonical(TheHand), 8), 30,
                              At(Canonical(TheHand), 5), At(Canonical(TheHand), 17))) =>
        ~Truthy(detected.ret)

\* a hand that meets every other criterion of F, thumb tip beyond 0.3 palm
\* widths from the index tip, was not matched
C13_Witness ==
    LET p == Canonical(TheHand)
    IN  /\ FReturned
        /\ DistGreater(At(p, 4), At(p, 8), 30, At(p, 5), At(p, 17))
        /\ index_partially_bent(p) /\ thumb_natural_position(p)
        /\ straight_fingers_count(p) >= 2 /\ good_spread(p)
        /\ index_separated_from_group(p) /\ index_not_pointing_up(p)
        /\ palm_facing_forward(p)
        /\ detected = Returned("False")


\* z component of the palm normal (wrist to index MCP) x (wrist to pinky MCP)
PalmNormalZ(p) == CrossZ(At(p, 0), At(p, 5), At(p, 17))

\* C14: no landmark set whose palm normal has a negative z component is matched
\* by a rule that tests palm orientation (B, C, F)
C14_NegativeNormalNoMatch ==
    \A side \in {"Left", "Right"} :
        ((RuleReturned("B", side) \/ RuleReturned("C", side) \/ FReturned)
            /\ TheHand.label = side
            /\ PalmNormalZ(Canonical(TheHand)) < 0) =>
                ~Truthy(detected.ret)


\* C15: the reflection of a left hand is a new list whose entry i is
\* (1 - x, y, z) of input entry i, of the same length once complete; the
\* caller's list is unchanged; a right hand's list reaches the rule as given
C15_MirrorIsPointwise ==
    pc \in {"mirror", "body"} =>
        LET input == TheHand.landmark.items
        IN  /\ results = message.hands
            /\ IF TheHand.label = "Left"
               THEN /\ Len(mirrored_landmarks) <= Len(input)
                    /\ \A i \in 1..Len(mirrored_landmarks) :
                            mirrored_landmarks[i] =
                                [x |-> FloatSub(FloatOne, input[i].x),
                                 y |-> input[i].y, z |-> input[i].z]
                    /\ pc = "body" =>
                            /\ Len(mirrored_landmarks) = Len(input)
                            /\ points = PyList(mirrored_landmarks)
               ELSE /\ mirrored_landmarks = <<>>
                    /\ pc = "body" => points = TheHand.landmark

\* a left hand's list with two different x was reflected completely
C15_Witness ==
    /\ pc = "body"
    /\ TheHand.label = "Left"
    /\ received = 1
    /\ Len(mirrored_landmarks) > 21
    /\ TheHand.landmark.items[1].x # TheHand.landmark.items[2].x
    /\ mirrored_landmarks[1].x # TheHand.landmark.items[1].x


\* the hand of the first call and the list that the second reflection produced
RoundTrip(first, back) ==
    /\ pc = "body"
    /\ received = 2
    /\ first \in log
    /\ back = points.items

\* C16 as stated: mirror(mirror(L)) equals L point by point, x included
C16_MirrorInvolutionExact ==
    \A first \in log :
        RoundTrip(first, points.items) => points.items = first.landmark.items

\* C16: mirror(mirror(L)) has the length of L and at every index the same y
\* and z, and an x within the rounding error of one subtraction below 1.0
\* (half a unit in the last place of 1.0) of the x of L
C16_MirrorInvolution ==
    \A first \in log :
        RoundTrip(first, points.items) =>
            LET l == first.landmark.items
                back == points.items
            IN  /\ Len(back) = Len(l)
                /\ \A i \in 1..Len(l) :
                        /\ back[i].y = l[i].y
                        /\ back[i].z = l[i].z
                        /\ 2 * Pow2(MantBits) * Abs(back[i].x - l[i].x) <= FloatOne

\* a list was reflected twice; one x came back exactly, another came back changed
C16_Witness ==
    \E first \in log :
        /\ RoundTrip(first, points.items)
        /\ points.items[1].x = first.landmark.items[1].x
        /\ points.items[2].x # first.landmark.items[2].x


\* C17: angle_deg never fails, returns a value between 0 and 180 degrees, and
\* returns exactly 180 when the vertex b coincides with a or with c
C17_AngleTotal ==
    pc = "returned_angle" =>
        /\ detected.exc = ""
        /\ detected.ret \in 0..180
        /\ (points.items[2] = points.items[1] \/ points.items[2] = points.items[3]) =>
                detected.ret = 180

\* parallel rays whose quotient came out above 1.0 gave the angle 0
C17_Witness ==
    /\ pc = "returned_angle"
    /\ points.items[2] # points.items[1]
    /\ vec(points.items[2], points.items[1]) = vec(points.items[2], points.items[3])
    /\ detected = Returned(0)

\* a vertex that coincides with one end gave 180
C17_WitnessDegenerate ==
    /\ pc = "returned_angle"
    /\ points.items[2] = points.items[1]
    /\ points.items[2] # points.items[3]
    /\ detected = Returned(180)


(***************************************************************************)
(* C18: the registry is built once and only read afterwards                *)
(***************************************************************************)

\* the registry as lines 13-24 of ws_server.py leave it at import
BuiltLetters == <<"A", "B", "C">>

BuiltModules ==
    [l \in {"A", "B", "C"} |-> [left |-> <<l, "left">>, right |-> <<l, "right">>]]

\* C18: whatever messages, frames, errors and disconnections the handler has gone
\* through, LETTERS holds the same letters in the same order and letter_modules
\* binds the same rule module to every (letter, hand) as right after start-up.
C18_RegistryReadOnly ==
    /\ LETTERS = BuiltLetters
    /\ letter_modules = BuiltModules

\* the handler has answered a frame with a letter, answered another message with
\* an error, and has ended because the client went away
C18_Witness ==
    /\ pc = "closed"
    /\ \E i \in 1..Len(sent) : sent[i].status = "error"
    /\ \E i \in 1..Len(sent) : sent[i].status = "success" /\ sent[i].translation # ""


(***************************************************************************)
(* C19: handlers of several connections                                    *)
(***************************************************************************)

\* what lines 75-104 yield for the hands of one frame taken alone: the first
\* match of the first hand that has one
FrameClassification(hands) ==
    IF \A i \in 1..Len(hands) : FirstMatch(hands[i]) = "" THEN ""
    ELSE FirstMatch(hands[CHOOSE i \in 1..Len(hands) :
                            /\ FirstMatch(hands[i]) # ""
                            /\ \A j \in 1..(i - 1) : FirstMatch(hands[j]) = ""])

\* C19: with two handlers interleaved at their awaits in every possible way,
\* whenever a handler sends a success response, the translation in it is the
\* classification of the hands of the frame that handler received, whatever the
\* other handler received and did in between.
C19_HandlersIndependent ==
    [][\A c \in Clients :
            (pc[c] = "send" /\ pc'[c] = "recv") =>
                sent'[c] = Append(sent[c],
                                  Response(FrameClassification(message[c].hands), "success"))]_vars

\* a handler sent a letter for its frame although, while its send was pending,
\* the other handler classified a frame of its own with another outcome
C19_Witness ==
    \E c, d \in Clients :
        /\ c # d
        /\ pc[d] = "send"
        /\ translation[d] # ""
        /\ Len(sent[c]) > 0
        /\ sent[c][Len(sent[c])].status = "success"
        /\ sent[c][Len(sent[c])].translation \notin {"", translation[d]}
        /\ message[c].kind = "frame"
        /\ message[d].kind = "frame"


(***************************************************************************)
(* C20: the four criteria of the right-hand B rule                         *)
(***************************************************************************)

\* the cross product of (wrist to index MCP) and (wrist to pinky MCP) is positive
BPalmCriterion(p) ==
    (p[6].x - p[1].x) * (p[18].y - p[1].y) - (p[6].y - p[1].y) * (p[18].x - p[1].x) > 0

\* each of the four fingertips has a smaller y than its MCP joint
BFingersCriterion(p) ==
    /\ p[9].y < p[6].y
    /\ p[13].y < p[10].y
    /\ p[17].y < p[14].y
    /\ p[21].y < p[18].y

\* the thumb tip is closer to the index MCP than to landmark 2 and its x lies
\* strictly between the wrist x and the index MCP x
BThumbCriterion(p) ==
    /\ (p[5].x - p[6].x) * (p[5].x - p[6].x) + (p[5].y - p[6].y) * (p[5].y - p[6].y)
         < (p[5].x - p[3].x) * (p[5].x - p[3].x) + (p[5].y - p[3].y) * (p[5].y - p[3].y)
    /\ \/ p[1].x < p[5].x /\ p[5].x < p[6].x
       \/ p[6].x < p[5].x /\ p[5].x < p[1].x

\* |thumb tip y - index MCP y| is below the threshold
BAlignCriterion(p) ==
    /\ p[5].y - p[6].y < thumb_alignment_threshold
    /\ p[6].y - p[5].y < thumb_alignment_threshold

\* C20: called on a list, the right-hand B rule returns 'B' when the list has 21
\* entries and the four criteria hold, and the empty string in every other case.
C20_BExactlyFourCriteria ==
    (pc = "returned" /\ LETTERS[letter] = "B" /\ TheHand.label = "Right"
        /\ ~TheHand.landmark.none) =>
        LET p == TheHand.landmark.items
        IN  IF /\ Len(p) = 21
               /\ BPalmCriterion(p)
               /\ BFingersCriterion(p)
               /\ BThumbCriterion(p)
               /\ BAlignCriterion(p)
            THEN detected = Returned("B")
            ELSE detected = Returned("")

\* a palm-facing hand with four fingers up and the thumb folded, but with the
\* thumb tip too far above or below the index MCP, was not matched
C20_Witness ==
    /\ RuleReturned("B", "Right")
    /\ BPalmCriterion(TheHand.landmark.items)
    /\ BFingersCriterion(TheHand.landmark.items)
    /\ BThumbCriterion(TheHand.landmark.items)
    /\ ~BAlignCriterion(TheHand.landmark.items)
    /\ detected = Returned("")

\* a hand that meets the four criteria was matched as 'B'
C20_WitnessMatch ==
    /\ RuleReturned("B", "Right")
    /\ detected = Returned("B")


(***************************************************************************)
(* C21, C24: the D rules                                                   *)
(***************************************************************************)

\* the state after the D rule of the hand's side was called on a list of at
\* least 21 landmarks
DReturned(side) ==
    /\ pc = "returned_D"
    /\ TheHand.label = side
    /\ ~TheHand.landmark.none
    /\ Len(TheHand.landmark.items) >= 21

\* C21: on every list of at least 21 points, the left-hand D rule returns what
\* the right-hand D rule returns on the list with every x replaced by 1 - x
C21_DLeftIsRightOnMirror ==
    DReturned("Left") =>
        detected = D_right_detect_right_hand(PyList(Mirror(TheHand.landmark.items)))

\* a left hand given as a list of more than 21 points was matched as D
C21_Witness ==
    /\ DReturned("Left")
    /\ Len(TheHand.landmark.items) > 21
    /\ detected = Returned("True")


CurvedFingers(p) ==
    {f \in {<<9, 6>>, <<13, 10>>, <<17, 14>>, <<21, 18>>} :
        /\ 10000 * distance2(p[f[1]], p[1]) > 8100 * distance2(p[f[2]], p[1])
        /\ p[f[1]].z > p[f[2]].z - 5}

DCurled(p, m, q, t) ==
    LET d == (p[m].x - p[q].x) * (p[t].x - p[q].x) + (p[m].y - p[q].y) * (p[t].y - p[q].y)
               + (p[m].z - p[q].z) * (p[t].z - p[q].z)
        n == distance2(p[m], p[q]) * distance2(p[t], p[q])
    IN  \/ n > 0 /\ (d >= 0 \/ 4 * d * d < n)
        \/ 10000 * distance2(p[t], p[m]) < 9025 * distance2(p[q], p[m])

\* squared distance, in squared hundredths, from the thumb tip to landmark t
ThumbTo2(p, t) == distance2(p[5], p[t + 1])

\* squared palm width
PalmWidth2(p) == distance2(p[6], p[18])

\* C24: in every set the right-hand D rule matches, the thumb tip is closer than
\* max(0.4 palm widths, 0.03) to the middle, ring or pinky tip, farther than
\* max(0.25 palm widths, 0.03) from the index tip, and at least two of the
\* middle, ring and pinky fingers are curled
C24_DThumbContact ==
    (DReturned("Right") /\ detected = Returned("True")) =>
        LET p == TheHand.landmark.items
        IN  /\ \E t \in {12, 16, 20} :
                    100 * ThumbTo2(p, t) < 16 * PalmWidth2(p) \/ ThumbTo2(p, t) < 9
            /\ 10000 * ThumbTo2(p, 8) > 625 * PalmWidth2(p)
            /\ ThumbTo2(p, 8) > 9
            /\ Cardinality({m \in {10, 14, 18} : DCurled(p, m, m + 1, m + 3)}) >= 2

\* a right hand was matched as D
C24_Witness ==
    /\ DReturned("Right")
    /\ detected = Returned("True")

\* a right hand with the index extended and three fingers curled, whose thumb
\* tip is close to no curled fingertip, was not matched
C24_WitnessNoContact ==
    /\ DReturned("Right")
    /\ D_right_index_extended(TheHand.landmark.items)
    /\ D_right_curled_count(TheHand.landmark.items) = 3
    /\ D_right_sep_ok(TheHand.landmark.items)
    /\ D_right_thumb_not_touch_index(TheHand.landmark.items)
    /\ detected = Returned("False")


(***************************************************************************)
(* C25: the registry is complete                                           *)
(***************************************************************************)

C26_ConvertKeepsXYZ ==
    (pc \in {"letters", "endhand"} /\ evaluated # <<>> /\ ~results[hand].landmark.none) =>
        /\ Len(points.items) = Len(results[hand].landmark.items)
        /\ \A i \in 1..Len(points.items) :
            /\ points.items[i].x = results[hand].landmark.items[i].x
            /\ points.items[i].y = results[hand].landmark.items[i].y
            /\ points.items[i].z = results[hand].landmark.items[i].z

\* the same for length, order, x and y only: what the conversion does keep
C26_ConvertKeepsXY ==
    (pc \in {"letters", "endhand"} /\ evaluated # <<>> /\ ~results[hand].landmark.none) =>
        /\ Len(points.items) = Len(results[hand].landmark.items)
        /\ \A i \in 1..Len(points.items) :
            /\ points.items[i].x = results[hand].landmark.items[i].x
            /\ points.items[i].y = results[hand].landmark.items[i].y


(***************************************************************************)
(* C27 - C29: the responses on one connection                              *)
(***************************************************************************)

\* C27: when the handler is ready to read the next message, every message it
\* received has got one response, and at no time are there more responses than
\* messages.
C27_OneResponsePerMessage ==
    /\ Len(sent) <= received
    /\ pc = "recv" => Len(sent) = received

\* the half that holds: never more responses than messages
C27_AtMostOneResponse == Len(sent) <= received


\* C28: the messages before the latest one have all been answered or skipped
\* when the latest is read; the responses follow the order of arrival of their
\* messages; and the translation of the latest success response is the
\* classification of the latest message's hands.
C28_ResponsesInOrder ==
    /\ Len(outcomes) = received
    /\ \A n \in 1..(Len(outcomes) - 1) : outcomes[n] # "pending"
    /\ [i \in 1..Len(sent) |-> sent[i].status]
         = SelectSeq(outcomes, LAMBDA o : o \in {"success", "error"})
    /\ (received > 0 /\ outcomes[received] = "success") =>
            sent[Len(sent)].translation = FrameClassification(message.hands)

\* three messages were answered in turn: a letter, an error, another letter
C28_Witness ==
    /\ outcomes = <<"success", "error", "success">>
    /\ Len(sent) = 3
    /\ sent[1].translation # ""
    /\ sent[3].translation \notin {"", sent[1].translation}


\* C29: no exception leaves handle_client, and once the connection has ended,
\* with or without closing handshake, the handler reaches its final step
\* (line 127) and returns.
C29_HandlerTerminates ==
    /\ [](pc # "raised")
    /\ (conn # "open") ~> (pc = "closed")

\* the handler has returned after the connection was lost without handshake
\* while a response was being prepared
C29_Witness ==
    /\ pc = "closed"
    /\ conn = "aborted"
    /\ received > 0
    /\ outcomes[received] = "pending"

=============================================================================
